---- MODULE Spec2Model ----
(***************************************************************************)
(* Model of the requirements-gathering session (RequirementsGatherer),     *)
(* the tolerant JSON decode of extract_requirements and                    *)
(* generate_user_stories, the DesignGenerator methods, and the part of the  *)
(* record store they write.                                                *)
(*                                                                         *)
(* Texts returned by the Model Gateway for decoding are sequences of       *)
(* lexical units: single characters (brace, backtick, quote, space, ...) and *)
(* words without special characters ("json", "functional", "x", ...); the  *)
(* word "json" stands for its four characters.                             *)
(***************************************************************************)
EXTENDS Integers, Sequences, FiniteSets, TLC

VARIABLES
    conversation_history,  \* RequirementsGatherer.conversation_history
    started,               \* project_name / system_prompt have been set
    op,                    \* the operation that ran last
    ret,                   \* what it returned or raised
    gwCalls,               \* Model Gateway calls made by that operation
    gwReply,               \* what the Model Gateway answered to that call
    gwRequest,             \* the request of that call
    gwText,                \* the text the gateway stub gives to a decode request
    prevLen,               \* length of the transcript before that operation
    script,                \* steps of the "complete session" done so far
    requirements,          \* requirement records of the project in the store
    artifacts,             \* design artifacts of the project in the store
    peer,                  \* a second RequirementsGatherer instance
    credential,            \* ANTHROPIC_API_KEY is set in the environment
    pc,                    \* where main() is: "start", "menu" or "exit"
    projectExists,         \* the project is in the store
    runRequests            \* requests sent by the last gather or generate-all run

\* the state of main.py and of the second gatherer
appVars == <<peer, credential, pc, projectExists, runRequests>>

vars == <<conversation_history, started, op, ret, gwCalls, gwReply, gwRequest,
          gwText, prevLen, script, requirements, artifacts, appVars>>

----------------------------------------------------------------------------
(* Bounds *)

\* the explored transcripts hold at most this many pairs of adjacent turns
\* with the same role (calls that leave the question/answer protocol)
MaxRepeats == 2

\* at most this many artifacts are stored
MaxArtifacts == 2

\* at most this many artifacts are stored while the menu is explored
MaxAppArtifacts == 8

\* the transcripts whose summary is taken hold at most this many turns
MaxSummaryTurns == 4

\* each of two interleaved sessions holds at most this many turns
MaxPeerTurns == 3

----------------------------------------------------------------------------
(* Python values *)

None == "<None>"

\* 'if user_response:' -- None and the empty string are falsy
Truthy(x) == x # None /\ x # ""

UserResponses == {None, "", "a"}

RetNone == [kind |-> "None", val |-> None]
RetStr(t) == [kind |-> "str", val |-> t]
RetJson(v) == [kind |-> "json", val |-> v]
Raise(e) == [kind |-> "raise", val |-> e]

NoReply == [ok |-> FALSE, text |-> None]
Reply(t) == [ok |-> TRUE, text |-> t]

----------------------------------------------------------------------------
(* Texts: strip, startswith, split *)

\* the unit "bt" is the backtick character
BackTick == "bt"

Fence == <<BackTick, BackTick, BackTick>>

\* str.strip() removes these from both ends; json skips them between tokens
IsWhitespace(u) == u \in {" ", "\n"}

RECURSIVE LStrip(_)
LStrip(s) == IF s # <<>> /\ IsWhitespace(Head(s)) THEN LStrip(Tail(s)) ELSE s

RECURSIVE RStrip(_)
RStrip(s) ==
    IF s # <<>> /\ IsWhitespace(s[Len(s)])
    THEN RStrip(SubSeq(s, 1, Len(s) - 1)) ELSE s

Strip(s) == RStrip(LStrip(s))

StartsWith(s, prefix) ==
    Len(s) >= Len(prefix) /\ SubSeq(s, 1, Len(prefix)) = prefix

\* s.split(fence): the segments between non-overlapping delimiters, scanned
\* from the left
RECURSIVE SplitFence(_, _)
SplitFence(s, seg) ==
    IF s = <<>> THEN <<seg>>
    ELSE IF StartsWith(s, Fence)
         THEN <<seg>> \o SplitFence(SubSeq(s, Len(Fence) + 1, Len(s)), <<>>)
         ELSE SplitFence(Tail(s), Append(seg, Head(s)))

DropJsonTag_Kept(s) == s

\* s[4:] of a text that starts with 'json': the word unit is dropped
DropJsonTag(s) == Tail(s)

----------------------------------------------------------------------------
(* json.loads on a text *)

JNull == [t |-> "null", v |-> <<>>]
JInt(digits) == [t |-> "int", v |-> digits]
JStr(units) == [t |-> "str", v |-> units]
JList(elems) == [t |-> "list", v |-> elems]
\* a dict is the sequence of its <<key, value>> items in insertion order
JDict(items) == [t |-> "dict", v |-> items]

Digits == {"1"}

HasKey(d, k) == \E i \in 1..Len(d.v) : d.v[i][1] = k

\* d[k] = val: a repeated key keeps its place and takes the last value
DictPut(items, k, val) ==
    IF \E i \in 1..Len(items) : items[i][1] = k
    THEN [i \in 1..Len(items) |->
             IF items[i][1] = k THEN <<k, val>> ELSE items[i]]
    ELSE Append(items, <<k, val>>)

\* d.get(k, default)
DictGet(d, k, default) ==
    IF HasKey(d, k)
    THEN d.v[CHOOSE i \in 1..Len(d.v) : d.v[i][1] = k][2]
    ELSE default

ParseFail == [ok |-> FALSE, val |-> JNull, rest |-> <<>>]
ParseOk(val, rest) == [ok |-> TRUE, val |-> val, rest |-> rest]

\* after the opening quote; a literal newline is a control character, which
\* the strict decoder rejects
RECURSIVE ScanString(_, _)
ScanString(s, acc) ==
    IF s = <<>> THEN ParseFail
    ELSE IF Head(s) = "\"" THEN ParseOk(JStr(acc), Tail(s))
    ELSE IF Head(s) = "\n" THEN ParseFail
    ELSE ScanString(Tail(s), Append(acc, Head(s)))

RECURSIVE ScanNumber(_, _)
ScanNumber(s, acc) ==
    IF s # <<>> /\ Head(s) \in Digits
    THEN ScanNumber(Tail(s), Append(acc, Head(s)))
    ELSE ParseOk(JInt(acc), s)

RECURSIVE ParseValue(_), ParseMembers(_, _, _), ParseElements(_, _, _)

\* scan_once after skipping whitespace
ParseValue(s0) ==
    LET s == LStrip(s0)
    IN  IF s = <<>> THEN ParseFail
        ELSE IF Head(s) = "\"" THEN ScanString(Tail(s), <<>>)
        ELSE IF Head(s) = "{" THEN ParseMembers(LStrip(Tail(s)), <<>>, TRUE)
        ELSE IF Head(s) = "[" THEN ParseElements(LStrip(Tail(s)), <<>>, TRUE)
        ELSE IF Head(s) = "null" THEN ParseOk(JNull, Tail(s))
        ELSE IF Head(s) \in Digits THEN ScanNumber(s, <<>>)
        ELSE ParseFail

\* JSONObject: s is past the "{" or a ",", whitespace skipped
ParseMembers(s, items, first) ==
    IF s = <<>> THEN ParseFail
    ELSE IF first /\ Head(s) = "}" THEN ParseOk(JDict(items), Tail(s))
    ELSE IF Head(s) # "\"" THEN ParseFail
    ELSE LET key == ScanString(Tail(s), <<>>)
             s1 == LStrip(key.rest)
             val == ParseValue(Tail(s1))
             s2 == LStrip(val.rest)
             items2 == DictPut(items, key.val.v, val.val)
         IN  IF ~key.ok THEN ParseFail
             ELSE IF s1 = <<>> \/ Head(s1) # ":" THEN ParseFail
             ELSE IF ~val.ok THEN ParseFail
             ELSE IF s2 = <<>> THEN ParseFail
             ELSE IF Head(s2) = "}" THEN ParseOk(JDict(items2), Tail(s2))
             ELSE IF Head(s2) = ","
                  THEN ParseMembers(LStrip(Tail(s2)), items2, FALSE)
             ELSE ParseFail

\* JSONArray: s is past the "[" or a ",", whitespace skipped
ParseElements(s, elems, first) ==
    IF s = <<>> THEN ParseFail
    ELSE IF first /\ Head(s) = "]" THEN ParseOk(JList(elems), Tail(s))
    ELSE LET val == ParseValue(s)
             s2 == LStrip(val.rest)
             elems2 == Append(elems, val.val)
         IN  IF ~val.ok THEN ParseFail
             ELSE IF s2 = <<>> THEN ParseFail
             ELSE IF Head(s2) = "]" THEN ParseOk(JList(elems2), Tail(s2))
             ELSE IF Head(s2) = ","
                  THEN ParseElements(LStrip(Tail(s2)), elems2, FALSE)
             ELSE ParseFail

\* json.loads: one value, whitespace around it, nothing else; ok = FALSE is
\* json.JSONDecodeError
JsonLoads(s) ==
    LET r == ParseValue(s)
    IN  IF r.ok /\ LStrip(r.rest) = <<>> THEN [ok |-> TRUE, val |-> r.val]
        ELSE [ok |-> FALSE, val |-> JNull]

----------------------------------------------------------------------------
(* The tolerant decode of extract_requirements and generate_user_stories *)

\* the 'Remove markdown code blocks if present' step; ok = FALSE is the
\* IndexError of [1]
RemoveCodeBlock(text) ==
    IF StartsWith(text, Fence)
    THEN LET parts == SplitFence(text, <<>>)
             seg == parts[2]
             untagged == IF StartsWith(seg, <<"json">>)
                         THEN DropJsonTag(seg) ELSE seg
         IN  IF Len(parts) < 2 THEN [ok |-> FALSE, text |-> <<>>]
             ELSE [ok |-> TRUE, text |-> Strip(untagged)]
    ELSE [ok |-> TRUE, text |-> text]

EmptyRequirements ==
    JDict(<< <<(<<"functional">>), JList(<<>>)>>,
             <<(<<"non_functional">>), JList(<<>>)>>,
             <<(<<"constraints">>), JList(<<>>)>> >>)

DecodeRequirements_Reraise(reply) ==
    LET requirements_json == Strip(reply)
        block == RemoveCodeBlock(requirements_json)
        loaded == JsonLoads(block.text)
    IN  IF ~block.ok THEN Raise("IndexError")
        ELSE IF loaded.ok THEN RetJson(loaded.val)
        ELSE Raise("JSONDecodeError")

\* lines 148-169 of requirements.py: the value returned for a reply text
DecodeRequirements(reply) ==
    LET requirements_json == Strip(reply)
        block == RemoveCodeBlock(requirements_json)
        loaded == JsonLoads(block.text)
    IN  IF ~block.ok THEN Raise("IndexError")
        ELSE IF loaded.ok THEN RetJson(loaded.val)
        ELSE RetJson(EmptyRequirements)

----------------------------------------------------------------------------
(* generate_user_stories: decode and _format_stories_for_display *)

\* for x in v
Iterable(v) == v.t \in {"list", "dict", "str"}

IterItems(v) ==
    IF v.t = "list" THEN v.v
    ELSE IF v.t = "dict" THEN [i \in 1..Len(v.v) |-> JStr(v.v[i][1])]
    ELSE IF v.t = "str" THEN [i \in 1..Len(v.v) |-> JStr(<<v.v[i]>>)]
    ELSE <<>>

\* if v:
JTruthy(v) == IF v.t \in {"list", "dict", "str"} THEN v.v # <<>> ELSE v.t = "int"

Key(w) == <<w>>
NA == JStr(<<"N/A">>)

\* what one pass of the loop body does to a story: "" when it appends its
\* lines, else the exception it raises
StoryError(story) ==
    IF story.t # "dict" THEN "AttributeError"
    ELSE IF ~Iterable(DictGet(story, Key("acceptance_criteria"), JList(<<>>)))
         THEN "TypeError"
    ELSE ""

\* the lines appended for one story
StoryLines(story) ==
    << <<"ID", DictGet(story, Key("id"), NA)>>,
       <<"Title", DictGet(story, Key("title"), NA)>>,
       <<"Epic", DictGet(story, Key("epic"), NA)>>,
       <<"Priority", DictGet(story, Key("priority"), NA)>>,
       <<"Story Points", DictGet(story, Key("story_points"), NA)>>,
       <<"User Story", DictGet(story, Key("user_story"), NA)>>,
       <<"Description", DictGet(story, Key("description"), NA)>>,
       <<"Acceptance Criteria",
         JList(IterItems(DictGet(story, Key("acceptance_criteria"), JList(<<>>))))>> >>
    \o (IF JTruthy(DictGet(story, Key("notes"), JNull))
        THEN << <<"Notes", DictGet(story, Key("notes"), JNull)>> >> ELSE <<>>)

RECURSIVE FormatLoop(_, _)
FormatLoop(stories, formatted) ==
    IF stories = <<>> THEN [err |-> "", text |-> formatted]
    ELSE IF StoryError(Head(stories)) # ""
         THEN [err |-> StoryError(Head(stories)), text |-> <<>>]
    ELSE FormatLoop(Tail(stories), Append(formatted, StoryLines(Head(stories))))

\* _format_stories_for_display
FormatStoriesForDisplay(user_stories) ==
    IF ~Iterable(user_stories) THEN [err |-> "TypeError", text |-> <<>>]
    ELSE FormatLoop(IterItems(user_stories), <<>>)

\* lines 118-146 of user_stories.py: what the call returns or raises for a
\* reply text, and the artifact it stores
DecodeStories(reply) ==
    LET stories_json == Strip(reply)
        block == RemoveCodeBlock(stories_json)
        loaded == JsonLoads(block.text)
        formatted_stories == FormatStoriesForDisplay(loaded.val)
    IN  IF ~block.ok
        THEN [ret |-> Raise("IndexError"), stored |-> FALSE, content |-> <<>>]
        ELSE IF ~loaded.ok
        THEN [ret |-> RetJson(JList(<<>>)), stored |-> FALSE, content |-> <<>>]
        ELSE IF formatted_stories.err # ""
        THEN [ret |-> Raise(formatted_stories.err), stored |-> FALSE,
              content |-> <<>>]
        ELSE [ret |-> RetJson(loaded.val), stored |-> TRUE,
              content |-> formatted_stories.text]

----------------------------------------------------------------------------
(* The texts the Model Gateway stub can return to a decode request *)

Quoted(w) == <<"\"", w, "\"">>

ListOf(w) == <<"[">> \o Quoted(w) \o <<"]">>

ObjectText(fn, nf, cs) ==
    <<"{">> \o Quoted("functional") \o <<":">> \o fn \o <<",">>
            \o Quoted("non_functional") \o <<":">> \o nf \o <<",">>
            \o Quoted("constraints") \o <<":">> \o cs \o <<"}">>

FullObject == ObjectText(ListOf("x"), <<"[", "]">>, ListOf("y"))
SpacedObject ==
    <<"{", "\n", " ">> \o Quoted("functional") \o <<":", " ">> \o ListOf("x")
       \o <<",", "\n">> \o Quoted("non_functional") \o <<" ", ":", "[", " ", "]">>
       \o <<",">> \o Quoted("constraints") \o <<":", "[", "]", "\n", "}">>
AllEmptyObject == ObjectText(<<"[", "]">>, <<"[", "]">>, <<"[", "]">>)
\* a requirement whose description quotes a code fence
FenceInString ==
    ObjectText(<<"[", "\"">> \o Fence \o <<"x", "\"", "]">>, <<"[", "]">>,
               <<"[", "]">>)
OneKeyObject == <<"{">> \o Quoted("functional") \o <<":">> \o ListOf("x") \o <<"}">>
NullEntryObject == ObjectText(<<"null">>, <<"[", "]">>, <<"1">>)
StoryA == <<"{">> \o Quoted("id") \o <<":">> \o Quoted("x") \o <<",">>
                  \o Quoted("acceptance_criteria") \o <<":">> \o ListOf("x")
                  \o <<"}">>
StoryB == <<"{">> \o Quoted("notes") \o <<":">> \o Quoted("y") \o <<"}">>
ThreeStories == <<"[">> \o StoryA \o <<",">> \o StoryB \o <<",", " ", "{", "}", "]">>
OneStory == <<"[">> \o StoryA \o <<"]">>
BadCriteria ==
    <<"[", "{">> \o Quoted("acceptance_criteria") \o <<":", "1", "}", "]">>

ObjectBodies ==
    {FullObject, SpacedObject, AllEmptyObject, FenceInString, OneKeyObject,
     NullEntryObject, <<"{", "}">>}

OtherBodies ==
    {ThreeStories, OneStory, BadCriteria,
     <<"[", "]">>, <<"[", "1", "]">>, <<"1">>, <<"null">>, Quoted("x"),
     <<"x", " ", "x">>,                       \* prose
     <<>>,
     <<"json">>,
     <<"{">> \o Quoted("functional") \o <<":", "[">>,   \* cut short
     <<"\"", "x", "\n", "x", "\"">>,
     <<"[", "1", ",", "]">>,
     FullObject \o <<" ", "x">>}              \* a value followed by prose

Bodies == ObjectBodies \cup OtherBodies

Leads == {<<>>, <<"\n", " ">>}
Opens == {<<>>, Fence, Fence \o <<"json">>, Fence \o <<"json", "\n">>,
          Fence \o <<"\n">>}
Closes == {<<>>, Fence, <<"\n">> \o Fence}
Trails == {<<>>, <<"\n">>, <<"\n", "x">>,
           <<"\n">> \o Fence \o AllEmptyObject \o Fence}

Replies ==
    {l \o o \o b \o c \o t : l \in Leads, o \in Opens, b \in Bodies,
                             c \in Closes, t \in Trails}

\* the replies used while a session is explored
SessionReplies == {Fence \o <<"json", "\n">> \o FullObject \o <<"\n">> \o Fence,
                   <<"x", " ", "x">>}

----------------------------------------------------------------------------
(* The conversation session *)

MaxQuestions == 8

Turn(r, c) == [role |-> r, content |-> c]

RECURSIVE CountRole(_, _)
CountRole(h, r) ==
    IF h = <<>> THEN 0
    ELSE (IF Head(h).role = r THEN 1 ELSE 0) + CountRole(Tail(h), r)

\* the Model Gateway as a stub: the text it returns when asked for question n
GatewayQuestion(n) == "q" \o ToString(n)

\* variants of the definitions below, each with one plausible slip
AppendAnswer_Placeholder(h, user_response) ==
    IF Truthy(user_response) THEN Append(h, [role |-> "user", content |-> user_response])
    ELSE IF user_response = "" THEN Append(h, [role |-> "user", content |-> "(no answer)"])
    ELSE h

AppendAnswer_Rebuild(h, user_response) ==
    IF Truthy(user_response) THEN <<[role |-> "user", content |-> user_response]>>
    ELSE h

\* lines 48-52
AppendAnswer(h, user_response) ==
    IF Truthy(user_response) THEN Append(h, Turn("user", user_response)) ELSE h

\* line 55
QuestionNumber(h) == CountRole(h, "assistant") + 1

AllQuestionsAsked_OffByOne(n) == n > MaxQuestions + 1

\* line 57
AllQuestionsAsked(n) == n > MaxQuestions

AppendQuestion_Twice(h, assistant_message) ==
    h \o <<[role |-> "assistant", content |-> assistant_message],
           [role |-> "assistant", content |-> assistant_message]>>

\* lines 93-96
AppendQuestion(h, assistant_message) ==
    Append(h, Turn("assistant", assistant_message))

\* the observer of the session "one call without an answer, then 8 calls
\* with a non-empty answer, every gateway call succeeding"
ScriptLen == MaxQuestions + 1

ScriptStep(s, user_response, failed) ==
    IF failed \/ s < 0 \/ s >= ScriptLen THEN -1
    ELSE IF s = 0 THEN (IF user_response = None THEN 1 ELSE -1)
    ELSE IF Truthy(user_response) THEN s + 1 ELSE -1

\* the messages sent are a copy of the history (line 71, line 129): the
\* instruction appended to the copy leaves the history alone
HistoryAfterMessages_Aliased(h, messages) == messages

HistoryAfterMessages(h, messages) == h

\* lines 61-68: the turn-specific instruction
FirstQuestionPrompt == "This is a requirements gathering session"
NextQuestionPrompt(n) ==
    "Based on the previous answer, ask your next question " \o ToString(n)
QuestionPrompt(n) == IF n = 1 THEN FirstQuestionPrompt ELSE NextQuestionPrompt(n)

\* lines 103-127
ExtractionPrompt == "Based on the entire conversation above, extract"

\* the arguments of client.messages.create
Request(system, max_tokens, messages) ==
    [system |-> system, max_tokens |-> max_tokens, messages |-> messages]
NoRequest == Request(None, 0, <<>>)

\* client.messages.create raises: nothing catches it, the caller gets it
GatewayFailure_Swallowed == RetNone

GatewayFailure == Raise("APIError")

GatewayAttempts_Retry == 1 + 1

\* client.messages.create is called once, in no loop
GatewayAttempts == 1

\* the state after RequirementsGatherer() with a project in the store
Constructed ==
    /\ conversation_history = <<>>
    /\ started = FALSE
    /\ op = "__init__"
    /\ ret = RetNone
    /\ gwCalls = 0
    /\ gwReply = NoReply
    /\ gwRequest = NoRequest
    /\ prevLen = 0
    /\ script = -1
    /\ artifacts = <<>>
    /\ peer = [conversation_history |-> <<>>, started |-> FALSE]
    /\ credential = TRUE
    /\ pc = "menu"
    /\ projectExists = TRUE
    /\ runRequests = <<>>

Init ==
    /\ Constructed
    /\ gwText \in SessionReplies
    /\ requirements = <<>>

StartSession_NoReset ==
    /\ conversation_history' = conversation_history
    /\ started' = TRUE
    /\ op' = "start_session"
    /\ ret' = RetStr("system_prompt")
    /\ gwCalls' = 0
    /\ gwReply' = NoReply
    /\ gwRequest' = NoRequest
    /\ prevLen' = Len(conversation_history)
    /\ script' = 0
    /\ UNCHANGED <<gwText, requirements, artifacts, appVars>>

\* lines 20-42
StartSession ==
    /\ conversation_history' = <<>>
    /\ started' = TRUE
    /\ op' = "start_session"
    /\ ret' = RetStr("system_prompt")
    /\ gwCalls' = 0
    /\ gwReply' = NoReply
    /\ gwRequest' = NoRequest
    /\ prevLen' = Len(conversation_history)
    /\ script' = 0
    /\ UNCHANGED <<gwText, requirements, artifacts, appVars>>

AskNextQuestion(user_response, gwOk) ==
    LET h1 == AppendAnswer(conversation_history, user_response)
        question_number == QuestionNumber(h1)
        messages == Append(h1, Turn("user", QuestionPrompt(question_number)))
        h2 == HistoryAfterMessages(h1, messages)
    IN  /\ op' = "ask_next_question"
        /\ prevLen' = Len(conversation_history)
        /\ UNCHANGED <<started, gwText, requirements, artifacts, appVars>>
        /\ IF AllQuestionsAsked(question_number)
           THEN /\ conversation_history' = h1
                /\ ret' = RetNone
                /\ gwCalls' = 0
                /\ gwReply' = NoReply
                /\ gwRequest' = NoRequest
                /\ script' = ScriptStep(script, user_response, FALSE)
           ELSE IF ~started
           THEN \* self.project_name / self.system_prompt do not exist yet
                /\ conversation_history' = h1
                /\ ret' = Raise("AttributeError")
                /\ gwCalls' = 0
                /\ gwReply' = NoReply
                /\ gwRequest' = NoRequest
                /\ script' = -1
           ELSE IF ~gwOk
           THEN \* client.messages.create raises
                /\ conversation_history' = h2
                /\ ret' = GatewayFailure
                /\ gwCalls' = GatewayAttempts
                /\ gwReply' = NoReply
                /\ gwRequest' = Request("system_prompt", 500, messages)
                /\ script' = -1
           ELSE LET assistant_message == GatewayQuestion(question_number)
                IN  /\ conversation_history' = AppendQuestion(h2, assistant_message)
                    /\ ret' = RetStr(assistant_message)
                    /\ gwCalls' = GatewayAttempts
                    /\ gwReply' = Reply(assistant_message)
                    /\ gwRequest' = Request("system_prompt", 500, messages)
                    /\ script' = ScriptStep(script, user_response, FALSE)

Repeats(h) ==
    Cardinality({i \in 1..(Len(h) - 1) : h[i].role = h[i + 1].role})

Ask == \E user_response \in UserResponses, gwOk \in BOOLEAN :
           /\ AskNextQuestion(user_response, gwOk)
           /\ Repeats(conversation_history') <= MaxRepeats

ExtractRequirements(gwOk) ==
    LET messages == Append(conversation_history, Turn("user", ExtractionPrompt))
    IN  /\ op' = "extract_requirements"
        /\ prevLen' = Len(conversation_history)
        /\ UNCHANGED <<started, gwText, script, requirements, artifacts, appVars>>
        /\ IF ~started
           THEN \* self.system_prompt does not exist yet
                /\ conversation_history' = conversation_history
                /\ ret' = Raise("AttributeError")
                /\ gwCalls' = 0
                /\ gwReply' = NoReply
                /\ gwRequest' = NoRequest
           ELSE /\ conversation_history' =
                       HistoryAfterMessages(conversation_history, messages)
                /\ gwCalls' = GatewayAttempts
                /\ gwRequest' = Request("system_prompt", 2000, messages)
                /\ IF ~gwOk
                   THEN /\ ret' = GatewayFailure
                        /\ gwReply' = NoReply
                   ELSE /\ ret' = DecodeRequirements(gwText)
                        /\ gwReply' = Reply(gwText)

Extract == \E gwOk \in BOOLEAN :
               /\ ExtractRequirements(gwOk)
               /\ Repeats(conversation_history') <= MaxRepeats

----------------------------------------------------------------------------
(* The artifact generators *)

ProjectName == "name"
ProjectDescription == "description"

RECURSIVE Numbered(_, _)
\* f"{i}. {req.description}" for i, req in enumerate(..., 1)
Numbered(descriptions, i) ==
    IF descriptions = <<>> THEN <<>>
    ELSE <<ToString(i) \o ". " \o Head(descriptions)>>
         \o Numbered(Tail(descriptions), i + 1)

RECURSIVE OfCategory(_, _)
\* [r for r in requirements if r.category == category]
OfCategory(reqs, category) ==
    IF reqs = <<>> THEN <<>>
    ELSE (IF Head(reqs).category = category
          THEN <<Head(reqs).description>> ELSE <<>>)
         \o OfCategory(Tail(reqs), category)

Section(header, descriptions) ==
    IF descriptions = <<>> THEN <<>>
    ELSE <<header>> \o Numbered(descriptions, 1) \o <<"">>

\* _format_requirements: the lines joined by newlines
FormatRequirements(reqs) ==
    Section("FUNCTIONAL REQUIREMENTS:", OfCategory(reqs, "functional"))
    \o Section("NON-FUNCTIONAL REQUIREMENTS:", OfCategory(reqs, "non_functional"))
    \o Section("CONSTRAINTS:", OfCategory(reqs, "constraint"))

DesignMethods ==
    {"generate_complete_design", "generate_architecture", "generate_data_model",
     "generate_api_spec", "generate_tech_stack", "generate_implementation_plan",
     "generate_diagrams", "generate_architecture_recommendations"}

GenerateMethods == DesignMethods \cup {"generate_user_stories"}

ArtifactType_Component(method) ==
    IF method = "generate_user_stories" THEN "user_stories" ELSE "component"

\* the artifact_type each method stores under
ArtifactType(method) ==
    CASE method = "generate_complete_design" -> "complete_system_design"
      [] method = "generate_architecture" -> "architecture"
      [] method = "generate_data_model" -> "data_model"
      [] method = "generate_api_spec" -> "api_specification"
      [] method = "generate_tech_stack" -> "technology_stack"
      [] method = "generate_implementation_plan" -> "implementation_plan"
      [] method = "generate_diagrams" -> "mermaid_diagrams"
      [] method = "generate_architecture_recommendations" ->
             "architecture_recommendations"
      [] method = "generate_user_stories" -> "user_stories"

\* max_tokens of each method
MaxTokens(method) ==
    CASE method = "generate_complete_design" -> 8000
      [] method \in {"generate_architecture", "generate_data_model",
                     "generate_api_spec", "generate_diagrams"} -> 4000
      [] method \in {"generate_tech_stack", "generate_implementation_plan"} -> 3000
      [] method \in {"generate_architecture_recommendations",
                     "generate_user_stories"} -> 6000

GenerateRequest_WithArtifacts(method, reqs) ==
    Request(<<method, "system_prompt">>, MaxTokens(method),
            <<[role |-> "user",
               content |-> <<method, ProjectName, ProjectDescription,
                             FormatRequirements(reqs), artifacts>>]>>)

\* the request of a method: its fixed instruction, with the project's name
\* and description and the formatted requirements
GenerateRequest(method, reqs) ==
    Request(<<method, "system_prompt">>, MaxTokens(method),
            <<[role |-> "user",
               content |-> <<method, ProjectName, ProjectDescription,
                             FormatRequirements(reqs)>>]>>)

\* the Model Gateway as a stub: the same text for the same request
GatewayDesign(request) == [reply_to |-> request.messages]

AddDesignArtifact_Nothing(arts, artifact_type, content) == arts

AddDesignArtifact_Replace(arts, artifact_type, content) ==
    Append(SelectSeq(arts, LAMBDA a : a.artifact_type # artifact_type),
           [artifact_type |-> artifact_type, content |-> content])

\* Database.add_design_artifact
AddDesignArtifact(arts, artifact_type, content) ==
    Append(arts, [artifact_type |-> artifact_type, content |-> content])

NoRequirements_Unchecked(reqs) == FALSE

\* 'if not project.requirements:'
NoRequirements(reqs) == reqs = <<>>

\* the eight DesignGenerator methods
GenerateDesign(method, gwOk) ==
    LET request == GenerateRequest(method, requirements)
        content == GatewayDesign(request)
    IN  /\ op' = method
        /\ prevLen' = Len(conversation_history)
        /\ UNCHANGED <<conversation_history, started, gwText, script,
                       requirements, appVars>>
        /\ IF NoRequirements(requirements)
           THEN /\ ret' = Raise("ValueError")
                /\ gwCalls' = 0
                /\ gwReply' = NoReply
                /\ gwRequest' = NoRequest
                /\ artifacts' = artifacts
           ELSE IF ~gwOk
           THEN /\ ret' = GatewayFailure
                /\ gwCalls' = GatewayAttempts
                /\ gwReply' = NoReply
                /\ gwRequest' = request
                /\ artifacts' = artifacts
           ELSE /\ ret' = RetJson(content)
                /\ gwCalls' = GatewayAttempts
                /\ gwReply' = Reply(content)
                /\ gwRequest' = request
                /\ artifacts' = AddDesignArtifact(artifacts, ArtifactType(method), content)

GenerateUserStories(gwOk) ==
    LET decoded == DecodeStories(gwText)
        request == GenerateRequest("generate_user_stories", requirements)
    IN  /\ op' = "generate_user_stories"
        /\ prevLen' = Len(conversation_history)
        /\ UNCHANGED <<conversation_history, started, gwText, script,
                       requirements, appVars>>
        /\ IF NoRequirements(requirements)
           THEN /\ ret' = Raise("ValueError")
                /\ gwCalls' = 0
                /\ gwReply' = NoReply
                /\ gwRequest' = NoRequest
                /\ artifacts' = artifacts
           ELSE IF ~gwOk
           THEN /\ ret' = GatewayFailure
                /\ gwCalls' = GatewayAttempts
                /\ gwReply' = NoReply
                /\ gwRequest' = request
                /\ artifacts' = artifacts
           ELSE /\ ret' = decoded.ret
                /\ gwCalls' = GatewayAttempts
                /\ gwReply' = Reply(gwText)
                /\ gwRequest' = request
                /\ artifacts' =
                     IF decoded.stored
                     THEN AddDesignArtifact(artifacts,
                                            ArtifactType("generate_user_stories"),
                                            decoded.content)
                     ELSE artifacts

Stories == \E gwOk \in BOOLEAN :
               /\ GenerateUserStories(gwOk)
               /\ Len(artifacts') <= MaxArtifacts

Design == \E method \in DesignMethods, gwOk \in BOOLEAN :
              /\ GenerateDesign(method, gwOk)
              /\ Len(artifacts') <= MaxArtifacts

----------------------------------------------------------------------------
(* Specifications *)

Next == StartSession \/ Ask \/ Extract

Spec == Init /\ [][Next]_vars

OneRequirement == <<[category |-> "functional", description |-> "x"]>>

\* a record stored by an earlier session
OldRequirement == <<[category |-> "functional", description |-> "old"]>>

\* the decode of every reply text, for a project with and without requirements
InitDecode ==
    /\ Constructed
    /\ gwText \in Replies
    /\ requirements \in {<<>>, OneRequirement}

NextDecode == StartSession \/ Extract \/ Stories

SpecDecode == InitDecode /\ [][NextDecode]_vars

\* the projects the generators are run on
StoredRequirements ==
    {<<>>,
     OneRequirement,
     <<[category |-> "functional", description |-> "x"],
       [category |-> "constraint", description |-> "y"],
       [category |-> "functional", description |-> "z"],
       [category |-> "non_functional", description |-> "w"]>>}

\* the replies to the user stories request while the generators are explored
GenerateReplies ==
    {Fence \o <<"json", "\n">> \o ThreeStories \o <<"\n">> \o Fence,
     <<"x", " ", "x">>,
     <<"[", "1", "]">>}

InitGenerate ==
    /\ Constructed
    /\ gwText \in GenerateReplies
    /\ requirements \in StoredRequirements

NextGenerate == Design \/ Stories

SpecGenerate == InitGenerate /\ [][NextGenerate]_vars

\* all operations together, on short transcripts and a small store
MaxTurnsAll == 2
MaxStoredAll == 1

InitAll ==
    /\ Constructed
    /\ gwText \in SessionReplies
    /\ requirements \in {<<>>, OneRequirement}

NextAll ==
    \/ StartSession
    \/ (Ask /\ Len(conversation_history') <= MaxTurnsAll)
    \/ Extract
    \/ (Design /\ Len(artifacts') <= MaxStoredAll)
    \/ (Stories /\ Len(artifacts') <= MaxStoredAll)

SpecAll == InitAll /\ [][NextAll]_vars

----------------------------------------------------------------------------
(* main.py: the menu handlers *)

\* the element of a one-element set: {F(x) : x \in {e}} evaluates e once
Only(S) == CHOOSE x \in S : TRUE

\* an error the handler caught and printed ('except ... as e: print')
Reported(e) == [kind |-> "reported", val |-> e]

\* one generate call of a menu handler: what it raises or returns, the store
\* after it and the request it sent
GenerateStep(method, reqs, arts, gwOk, text) ==
    LET request == GenerateRequest(method, reqs)
        content == GatewayDesign(request)
        decoded == DecodeStories(text)
    IN  IF NoRequirements(reqs)
        THEN [ret |-> Raise("ValueError"), artifacts |-> arts, requests |-> <<>>]
        ELSE IF ~gwOk
        THEN [ret |-> GatewayFailure, artifacts |-> arts,
              requests |-> <<request>>]
        ELSE IF method = "generate_user_stories"
        THEN [ret |-> decoded.ret,
              artifacts |-> IF decoded.stored
                            THEN AddDesignArtifact(arts, ArtifactType(method),
                                                   decoded.content)
                            ELSE arts,
              requests |-> <<request>>]
        ELSE [ret |-> RetJson(content),
              artifacts |-> AddDesignArtifact(arts, ArtifactType(method), content),
              requests |-> <<request>>]

AllSequence_WithComplete ==
    <<"generate_complete_design", "generate_architecture", "generate_data_model",
      "generate_api_spec", "generate_tech_stack", "generate_implementation_plan",
      "generate_diagrams", "generate_architecture_recommendations",
      "generate_user_stories">>

\* choice '10': the calls in the order of lines 348-378
AllSequence ==
    <<"generate_architecture", "generate_data_model", "generate_api_spec",
      "generate_tech_stack", "generate_implementation_plan",
      "generate_diagrams", "generate_architecture_recommendations",
      "generate_user_stories">>

RECURSIVE RunAll(_, _, _, _, _, _)
\* the calls of methods one after the other until one raises; the gateway
\* fails at the call numbered failAt (0: never); sent are the requests so far
RunAll(methods, reqs, arts, failAt, text, sent) ==
    IF methods = <<>>
    THEN [ret |-> RetNone, artifacts |-> arts, requests |-> sent]
    ELSE Only({IF step.ret.kind = "raise"
               THEN [ret |-> step.ret, artifacts |-> step.artifacts,
                     requests |-> sent \o step.requests]
               ELSE RunAll(Tail(methods), reqs, step.artifacts,
                           IF failAt = 0 THEN 0 ELSE failAt - 1, text,
                           sent \o step.requests) :
               step \in {GenerateStep(Head(methods), reqs, arts, failAt # 1,
                                      text)}})

Last(s, default) == IF s = <<>> THEN default ELSE s[Len(s)]

\* generate_design_menu with choice '10' and the export declined
GenerateAll(failAt) ==
    \E run \in {RunAll(AllSequence, requirements, artifacts, failAt, gwText,
                       <<>>)} :
        /\ pc = "menu"
        /\ op' = "generate_all"
        /\ prevLen' = Len(conversation_history)
        /\ UNCHANGED <<conversation_history, started, gwText, script,
                       requirements, peer, credential, pc, projectExists>>
        /\ IF ~projectExists
           THEN \* 'Project with ID ... not found'
                /\ ret' = Reported("not found")
                /\ gwCalls' = 0
                /\ gwReply' = NoReply
                /\ gwRequest' = NoRequest
                /\ runRequests' = <<>>
                /\ artifacts' = artifacts
           ELSE IF NoRequirements(requirements)
           THEN \* 'No requirements found for this project.'
                /\ ret' = Reported("no requirements")
                /\ gwCalls' = 0
                /\ gwReply' = NoReply
                /\ gwRequest' = NoRequest
                /\ runRequests' = <<>>
                /\ artifacts' = artifacts
           ELSE IF ~credential
           THEN \* DesignGenerator() raises, the handler prints the error
                /\ ret' = Reported("ValueError")
                /\ gwCalls' = 0
                /\ gwReply' = NoReply
                /\ gwRequest' = NoRequest
                /\ runRequests' = <<>>
                /\ artifacts' = artifacts
           ELSE /\ ret' = IF run.ret.kind = "raise"
                          THEN Reported(run.ret.val) ELSE RetNone
                /\ gwCalls' = Len(run.requests)
                /\ gwRequest' = Last(run.requests, NoRequest)
                /\ gwReply' = IF run.ret = GatewayFailure THEN NoReply
                              ELSE Reply(gwText)
                /\ artifacts' = run.artifacts
                /\ runRequests' = run.requests

RECURSIVE Join(_)
\* the Python string of a text given as lexical units
Join(units) == IF units = <<>> THEN "" ELSE Head(units) \o Join(Tail(units))

\* the column 'description' is Text, nullable=False: a string (or a number)
\* is stored, None or a container makes the commit fail
StoreAccepts(e) == e.t \in {"str", "int"}

\* Database.add_requirement
AddRequirement(reqs, category, e) ==
    Append(reqs, [category |-> category, description |-> Join(e.v)])

RECURSIVE SaveEntries(_, _, _)
\* 'for req_desc in ...: db.add_requirement(...)': each add is committed, so
\* the records added before a failure stay
SaveEntries(reqs, category, entries) ==
    IF entries = <<>> THEN [requirements |-> reqs, err |-> ""]
    ELSE IF ~StoreAccepts(Head(entries))
    THEN [requirements |-> reqs, err |-> "IntegrityError"]
    ELSE Only({SaveEntries(added, category, Tail(entries)) :
               added \in {AddRequirement(reqs, category, Head(entries))}})

\* the key of the extraction result and the category its entries are stored as
SavedLists ==
    << <<"functional", "functional">>, <<"non_functional", "non_functional">>,
       <<"constraints", "constraint">> >>

RECURSIVE SaveLists(_, _, _)
SaveLists(reqs, result, lists) ==
    IF lists = <<>> THEN [requirements |-> reqs, err |-> ""]
    ELSE Only({IF ~Iterable(entries)
               THEN [requirements |-> reqs, err |-> "TypeError"]
               ELSE Only({IF saved.err # "" THEN saved
                          ELSE SaveLists(saved.requirements, result, Tail(lists)) :
                          saved \in {SaveEntries(reqs, Head(lists)[2],
                                                 IterItems(entries))}}) :
               entries \in {DictGet(result, Key(Head(lists)[1]), JList(<<>>))}})

\* lines 101-114 of main.py
SaveRequirements(reqs, result) ==
    IF result.t # "dict"
    THEN [requirements |-> reqs, err |-> "AttributeError"]
    ELSE SaveLists(reqs, result, SavedLists)

\* ask_next_question on a started gatherer with transcript h, as a value:
\* the transcript after the call, what it returns or raises, the request sent
AskResult(h, user_response, gwOk) ==
    LET h1 == AppendAnswer(h, user_response)
        question_number == QuestionNumber(h1)
        messages == Append(h1, Turn("user", QuestionPrompt(question_number)))
        h2 == HistoryAfterMessages(h1, messages)
        assistant_message == GatewayQuestion(question_number)
    IN  IF AllQuestionsAsked(question_number)
        THEN [h |-> h1, ret |-> RetNone, requests |-> <<>>]
        ELSE IF ~gwOk
        THEN [h |-> h2, ret |-> GatewayFailure,
              requests |-> <<Request("system_prompt", 500, messages)>>]
        ELSE [h |-> AppendQuestion(h2, assistant_message),
              ret |-> RetStr(assistant_message),
              requests |-> <<Request("system_prompt", 500, messages)>>]

\* 'for i in range(8)'
GatherRounds == 8

Placeholder == "No specific requirements for this area."

\* lines 86-92: the answer passed on for what the user typed in round i
AnswerText(i, typed) ==
    "Q" \o ToString(i + 1) \o ": " \o (IF typed = "" THEN Placeholder ELSE typed)

RECURSIVE GatherLoop(_, _, _, _, _, _)
\* lines 79-93 from round i on: question is what the last call returned (or
\* raised), sent the requests so far; the gateway fails at call failAt
\* (0: never)
GatherLoop(h, question, i, typed, failAt, sent) ==
    IF i >= GatherRounds \/ question.kind # "str" \/ ~Truthy(question.val)
    THEN [h |-> h, ret |-> question, requests |-> sent]
    ELSE Only({IF asked.ret.kind = "raise"
               THEN [h |-> asked.h, ret |-> asked.ret,
                     requests |-> sent \o asked.requests]
               ELSE GatherLoop(asked.h, asked.ret, i + 1, typed, failAt,
                               sent \o asked.requests) :
               asked \in {AskResult(h, AnswerText(i, typed[i + 1]),
                                    failAt # Len(sent) + 1)}})

\* lines 76-93: the first question, then the rounds
GatherSession(typed, failAt) ==
    Only({GatherLoop(first.h, first.ret, 0, typed, failAt, first.requests) :
          first \in {AskResult(<<>>, None, failAt # 1)}})

\* lines 98-116 after the session: the extraction and the saving
GatherExtract(reqs, session, failAt, text) ==
    LET messages == Append(session.h, Turn("user", ExtractionPrompt))
        requests == session.requests
                       \o <<Request("system_prompt", 2000, messages)>>
    IN  IF failAt = Len(requests)
        THEN [requirements |-> reqs, h |-> session.h, result |-> GatewayFailure,
              ret |-> Reported(GatewayFailure.val), requests |-> requests,
              reply |-> NoReply]
        ELSE Only({IF decoded.kind = "raise"
                   THEN [requirements |-> reqs, h |-> session.h,
                         result |-> decoded, ret |-> Reported(decoded.val),
                         requests |-> requests, reply |-> Reply(text)]
                   ELSE Only({[requirements |-> saved.requirements,
                               h |-> session.h, result |-> decoded,
                               ret |-> IF saved.err = "" THEN RetNone
                                       ELSE Reported(saved.err),
                               requests |-> requests, reply |-> Reply(text)] :
                              saved \in {SaveRequirements(reqs, decoded.val)}}) :
                   decoded \in {DecodeRequirements(text)}})

\* gather_requirements as a value (export declined): the records in the
\* store afterwards, the gatherer's transcript, the extraction result, what
\* the handler printed as an error, the requests sent and the last reply
Gather(reqs, typed, failAt, text) ==
    Only({IF session.ret.kind = "raise"
          THEN [requirements |-> reqs, h |-> session.h, result |-> session.ret,
                ret |-> Reported(session.ret.val),
                requests |-> session.requests, reply |-> NoReply]
          ELSE GatherExtract(reqs, session, failAt, text) :
          session \in {GatherSession(typed, failAt)}})

\* what the user types at the 8 prompts
Typed == {[i \in 1..GatherRounds |-> "a"], [i \in 1..GatherRounds |-> ""]}

\* the primed variables of a handler that ran gather_requirements on the
\* records reqs
Gathering(reqs, typed, failAt) ==
    \E g \in {Gather(reqs, typed, failAt, gwText)} :
        IF ~credential
        THEN \* RequirementsGatherer() raises ValueError, line 147 prints it
             /\ ret' = Reported("ValueError")
             /\ requirements' = reqs
             /\ gwCalls' = 0
             /\ gwReply' = NoReply
             /\ gwRequest' = NoRequest
             /\ runRequests' = <<>>
             /\ UNCHANGED <<conversation_history, started>>
        ELSE /\ ret' = g.ret
             /\ requirements' = g.requirements
             /\ gwCalls' = Len(g.requests)
             /\ gwReply' = g.reply
             /\ gwRequest' = Last(g.requests, NoRequest)
             /\ runRequests' = g.requests
             /\ conversation_history' = g.h
             /\ started' = TRUE

DeleteRequirements_Kept(reqs) == reqs

\* lines 440-442: every requirement record of the project is deleted
DeleteRequirements(reqs) == <<>>

\* continue_existing_project with choice '1' (gather / re-gather), the
\* answer to 'This will replace existing requirements. Continue?' being
\* confirm
ContinueGather(confirm, typed, failAt) ==
    /\ pc = "menu"
    /\ op' = IF requirements # <<>> THEN "regather_requirements"
             ELSE "gather_requirements"
    /\ prevLen' = Len(conversation_history)
    /\ UNCHANGED <<gwText, script, artifacts, peer, credential, pc,
                   projectExists>>
    /\ IF ~projectExists \/ (requirements # <<>> /\ ~confirm)
       THEN /\ ret' = IF projectExists THEN RetStr("declined")
                      ELSE Reported("not found")
            /\ gwCalls' = 0
            /\ gwReply' = NoReply
            /\ gwRequest' = NoRequest
            /\ runRequests' = <<>>
            /\ UNCHANGED <<conversation_history, started, requirements>>
       ELSE Gathering(DeleteRequirements(requirements), typed, failAt)

\* create_new_project with a name and a description, gathering requirements
\* right away or not
CreateProject(gather_now, typed, failAt) ==
    /\ pc = "menu"
    /\ ~projectExists
    /\ op' = "create_new_project"
    /\ prevLen' = Len(conversation_history)
    /\ projectExists' = TRUE
    /\ artifacts' = <<>>
    /\ UNCHANGED <<gwText, script, peer, credential, pc>>
    /\ IF gather_now
       THEN Gathering(<<>>, typed, failAt)
       ELSE /\ ret' = RetNone
            /\ requirements' = <<>>
            /\ gwCalls' = 0
            /\ gwReply' = NoReply
            /\ gwRequest' = NoRequest
            /\ runRequests' = <<>>
            /\ UNCHANGED <<conversation_history, started>>

\* delete_project (main.py) with the answer 'yes' or another
DeleteProject(confirm) ==
    /\ pc = "menu"
    /\ op' = "delete_project"
    /\ prevLen' = Len(conversation_history)
    /\ ret' = IF projectExists THEN RetNone ELSE Reported("not found")
    /\ gwCalls' = 0
    /\ gwReply' = NoReply
    /\ gwRequest' = NoRequest
    /\ runRequests' = <<>>
    /\ UNCHANGED <<conversation_history, started, gwText, script, peer,
                   credential, pc>>
    /\ IF projectExists /\ confirm
       THEN \* cascade='all, delete-orphan' removes the records with the project
            /\ projectExists' = FALSE
            /\ requirements' = <<>>
            /\ artifacts' = <<>>
       ELSE UNCHANGED <<projectExists, requirements, artifacts>>

\* main(): the store is opened and the menu loop entered (lines 459-467)
Startup ==
    /\ pc = "start"
    /\ pc' = "menu"
    /\ op' = "main"
    /\ ret' = RetNone
    /\ prevLen' = Len(conversation_history)
    /\ gwCalls' = 0
    /\ gwReply' = NoReply
    /\ gwRequest' = NoRequest
    /\ runRequests' = <<>>
    /\ UNCHANGED <<conversation_history, started, gwText, script, requirements,
                   artifacts, peer, credential, projectExists>>

\* choice '6'
Exit ==
    /\ pc = "menu"
    /\ pc' = "exit"
    /\ op' = "exit"
    /\ ret' = RetNone
    /\ prevLen' = Len(conversation_history)
    /\ gwCalls' = 0
    /\ gwReply' = NoReply
    /\ gwRequest' = NoRequest
    /\ runRequests' = <<>>
    /\ UNCHANGED <<conversation_history, started, gwText, script, requirements,
                   artifacts, peer, credential, projectExists>>

\* generate_design_menu with choice '1'
CompleteDesign ==
    \E gwOk \in BOOLEAN :
        /\ pc = "menu"
        /\ projectExists
        /\ credential
        /\ ~NoRequirements(requirements)
        /\ GenerateDesign("generate_complete_design", gwOk)
        /\ Len(artifacts') <= MaxArtifacts

\* generate_design_menu with one of the choices '1' to '9'
MenuGenerate ==
    /\ pc = "menu"
    /\ projectExists
    /\ credential
    /\ ~NoRequirements(requirements)
    /\ (Design \/ Stories)

\* an extraction result whose second list is null
NullListObject == ObjectText(ListOf("x"), <<"null">>, ListOf("y"))

\* the replies to the extraction and the user stories request while the menu
\* is explored
AppReplies ==
    {Fence \o <<"json", "\n">> \o FullObject \o <<"\n">> \o Fence,
     OneKeyObject,
     NullListObject,
     <<"x", " ", "x">>,
     ThreeStories}

\* the calls of one gather_requirements: 8 questions and the extraction
GatherCalls == GatherRounds + 1

\* main() is started, with or without the credential in the environment
Started ==
    /\ conversation_history = <<>>
    /\ started = FALSE
    /\ op = "__init__"
    /\ ret = RetNone
    /\ gwCalls = 0
    /\ gwReply = NoReply
    /\ gwRequest = NoRequest
    /\ prevLen = 0
    /\ script = -1
    /\ artifacts = <<>>
    /\ peer = [conversation_history |-> <<>>, started |-> FALSE]
    /\ pc = "start"
    /\ projectExists = TRUE
    /\ runRequests = <<>>
    /\ credential \in BOOLEAN

Regather ==
    \E confirm \in BOOLEAN, typed \in Typed, failAt \in 0..GatherCalls :
        ContinueGather(confirm, typed, failAt)

Create ==
    \E gather_now \in BOOLEAN, typed \in Typed, failAt \in 0..GatherCalls :
        CreateProject(gather_now, typed, failAt)

Delete == \E confirm \in BOOLEAN : DeleteProject(confirm)

All == \E failAt \in 0..Len(AllSequence) :
           /\ GenerateAll(failAt)
           /\ Len(artifacts') <= MaxAppArtifacts

\* gathering and re-gathering the requirements of a project from the menu
InitGather ==
    /\ Started
    /\ gwText \in AppReplies
    /\ requirements \in {<<>>, OldRequirement}

NextGather == Startup \/ Regather \/ Create \/ Delete \/ Exit

SpecGather == InitGather /\ [][NextGather]_vars

\* generate-all runs from the menu
InitRun ==
    /\ Started
    /\ gwText \in GenerateReplies
    /\ requirements \in StoredRequirements

NextRun == Startup \/ All \/ CompleteDesign \/ Delete \/ Exit

SpecRun == InitRun /\ [][NextRun]_vars

\* single generate operations on a project that can be deleted
InitStore ==
    /\ Constructed
    /\ gwText \in GenerateReplies
    /\ requirements \in StoredRequirements

NextStore == MenuGenerate \/ Delete

SpecStore == InitStore /\ [][NextStore]_vars

----------------------------------------------------------------------------
(* requirements.py: the conversation summary *)

\* the prefixes get_conversation_summary takes for internal prompts
FirstPromptPrefix == "This is a requirements gathering"
NextPromptPrefix == "Based on the previous answer"

\* the answers given to a session whose summary is taken
SummaryResponses ==
    {None, "a", NextPromptPrefix \o ", also x", FirstPromptPrefix \o " tool"}

\* what follows one of the prefixes in a text of the model
Rests ==
    {"", ", also x", " tool", " session"}
        \cup {", ask your next question " \o ToString(n) : n \in 2..MaxQuestions}

\* content.startswith(prefix)
TextStartsWith(content, prefix) == \E rest \in Rests : content = prefix \o rest

\* the loop of lines 179-200
RECURSIVE SummaryLines(_, _)
SummaryLines(h, question_num) ==
    IF h = <<>> THEN <<>>
    ELSE IF /\ Head(h).role = "user"
            /\ \/ TextStartsWith(Head(h).content, FirstPromptPrefix)
               \/ TextStartsWith(Head(h).content, NextPromptPrefix)
    THEN SummaryLines(Tail(h), question_num)
    ELSE IF Head(h).role = "assistant"
    THEN <<"Q" \o ToString(question_num) \o ": " \o Head(h).content>>
             \o SummaryLines(Tail(h), question_num + 1)
    ELSE IF Head(h).role = "user"
    THEN <<"A: " \o Head(h).content \o "\n">>
             \o SummaryLines(Tail(h), question_num)
    ELSE SummaryLines(Tail(h), question_num)

\* sep.join(lines)
RECURSIVE JoinWith(_, _)
JoinWith(sep, lines) ==
    IF lines = <<>> THEN ""
    ELSE IF Len(lines) = 1 THEN Head(lines)
    ELSE Head(lines) \o sep \o JoinWith(sep, Tail(lines))

ConversationSummary(h) == JoinWith("\n", SummaryLines(h, 1))

\* lines 171-202
GetConversationSummary ==
    /\ op' = "get_conversation_summary"
    /\ ret' = RetStr(ConversationSummary(conversation_history))
    /\ gwCalls' = 0
    /\ gwReply' = NoReply
    /\ gwRequest' = NoRequest
    /\ prevLen' = Len(conversation_history)
    /\ UNCHANGED <<conversation_history, started, gwText, script, requirements,
                   artifacts, appVars>>

Answer == \E user_response \in SummaryResponses, gwOk \in BOOLEAN :
              /\ AskNextQuestion(user_response, gwOk)
              /\ Len(conversation_history') <= MaxSummaryTurns

\* sessions whose summary is taken at any point
InitSummary ==
    /\ Constructed
    /\ gwText = <<"x", " ", "x">>
    /\ requirements = <<>>

NextSummary == StartSession \/ Answer \/ GetConversationSummary

SpecSummary == InitSummary /\ [][NextSummary]_vars

----------------------------------------------------------------------------
(* requirements.py: two RequirementsGatherer instances *)

OwnList_ClassAttribute(written, other) == written

\* lines 18 and 22: conversation_history is bound to a new list on the
\* instance, in __init__ and in start_session; the list of the instance
\* written through is 'written', and the list of the other instance stays
OwnList(written, other) == other

\* start_session on the second instance
PeerStartSession ==
    /\ peer' = [conversation_history |-> <<>>, started |-> TRUE]
    /\ conversation_history' =
           OwnList(peer'.conversation_history, conversation_history)
    /\ op' = "peer.start_session"
    /\ ret' = RetStr("system_prompt")
    /\ gwCalls' = 0
    /\ gwReply' = NoReply
    /\ gwRequest' = NoRequest
    /\ prevLen' = Len(peer.conversation_history)
    /\ UNCHANGED <<started, gwText, script, requirements, artifacts,
                   credential, pc, projectExists, runRequests>>

\* ask_next_question on the second instance
PeerAskNextQuestion(user_response, gwOk) ==
    \E h1 \in {AppendAnswer(peer.conversation_history, user_response)} :
    \E r \in {IF ~peer.started /\ ~AllQuestionsAsked(QuestionNumber(h1))
              THEN [h |-> h1, ret |-> Raise("AttributeError"), requests |-> <<>>]
              ELSE AskResult(peer.conversation_history, user_response, gwOk)} :
        /\ peer' = [peer EXCEPT !.conversation_history = r.h]
        /\ conversation_history' =
               OwnList(peer'.conversation_history, conversation_history)
        /\ op' = "peer.ask_next_question"
        /\ ret' = r.ret
        /\ gwCalls' = Len(r.requests) * GatewayAttempts
        /\ gwReply' = IF r.ret.kind = "str" THEN Reply(r.ret.val) ELSE NoReply
        /\ gwRequest' = Last(r.requests, NoRequest)
        /\ prevLen' = Len(peer.conversation_history)
        /\ UNCHANGED <<started, gwText, script, requirements, artifacts,
                       credential, pc, projectExists, runRequests>>

\* extract_requirements on the second instance
PeerExtractRequirements(gwOk) ==
    LET messages == Append(peer.conversation_history,
                           Turn("user", ExtractionPrompt))
    IN  /\ peer' = [peer EXCEPT !.conversation_history =
                        IF peer.started
                        THEN HistoryAfterMessages(peer.conversation_history,
                                                  messages)
                        ELSE peer.conversation_history]
        /\ conversation_history' =
               OwnList(peer'.conversation_history, conversation_history)
        /\ op' = "peer.extract_requirements"
        /\ prevLen' = Len(peer.conversation_history)
        /\ UNCHANGED <<started, gwText, script, requirements, artifacts,
                       credential, pc, projectExists, runRequests>>
        /\ IF ~peer.started
           THEN /\ ret' = Raise("AttributeError")
                /\ gwCalls' = 0
                /\ gwReply' = NoReply
                /\ gwRequest' = NoRequest
           ELSE /\ gwCalls' = GatewayAttempts
                /\ gwRequest' = Request("system_prompt", 2000, messages)
                /\ IF ~gwOk
                   THEN /\ ret' = GatewayFailure
                        /\ gwReply' = NoReply
                   ELSE /\ ret' = DecodeRequirements(gwText)
                        /\ gwReply' = Reply(gwText)

OwnSession ==
    /\ \/ StartSession
       \/ \E user_response \in UserResponses, gwOk \in BOOLEAN :
              AskNextQuestion(user_response, gwOk)
       \/ \E gwOk \in BOOLEAN : ExtractRequirements(gwOk)
    /\ Len(conversation_history') <= MaxPeerTurns

PeerSession ==
    /\ \/ PeerStartSession
       \/ \E user_response \in UserResponses, gwOk \in BOOLEAN :
              PeerAskNextQuestion(user_response, gwOk)
       \/ \E gwOk \in BOOLEAN : PeerExtractRequirements(gwOk)
    /\ Len(peer'.conversation_history) <= MaxPeerTurns
    /\ Len(conversation_history') <= MaxPeerTurns

\* two sessions whose calls are interleaved in any order
InitTwo ==
    /\ Constructed
    /\ gwText \in SessionReplies
    /\ requirements = <<>>

NextTwo == OwnSession \/ PeerSession

SpecTwo == InitTwo /\ [][NextTwo]_vars

----------------------------------------------------------------------------
(* Properties *)

Askers(h) == CountRole(h, "assistant")
Responders(h) == CountRole(h, "user")

IsPrefix(a, b) == Len(a) <= Len(b) /\ SubSeq(b, 1, Len(a)) = a

AskStep == op' = "ask_next_question"

\* C1: the transcript never holds more than 8 asker turns, and an
\* ask_next_question call made when 8 asker turns exist returns None, makes
\* no Model Gateway call and asks nothing
C1_QuestionBound ==
    /\ [](Askers(conversation_history) <= 8)
    /\ [][(AskStep /\ Askers(conversation_history) = 8)
            => (ret'.kind = "None" /\ gwCalls' = 0
                /\ Askers(conversation_history') = 8)]_vars

C1_Witness ==
    /\ op = "ask_next_question"
    /\ Askers(conversation_history) = 8
    /\ ret.kind = "None"
    /\ gwCalls = 0

\* C2: after start_session, one call without an answer and then 8 calls with
\* a non-empty answer, all gateway calls succeeding, leave exactly 16 turns,
\* asker and responder strictly alternating from an asker turn, and the last
\* call returns None
C2_CompleteSession ==
    script = 9 =>
        /\ Len(conversation_history) = 16
        /\ \A i \in 1..16 :
               conversation_history[i].role =
                   IF i % 2 = 1 THEN "assistant" ELSE "user"
        /\ Askers(conversation_history) = 8
        /\ Responders(conversation_history) = 8
        /\ op = "ask_next_question" => ret.kind = "None"

C2_Witness == script = 9 /\ op = "ask_next_question" /\ gwCalls = 0

\* C3: in a started session an ask_next_question call made while fewer than
\* 8 asker turns exist makes exactly one Model Gateway call; when the call
\* succeeds exactly one asker turn is appended, last, holding the returned
\* text, and that text is returned
C3_OneCallPerQuestion ==
    [][(AskStep /\ started /\ Askers(conversation_history) < 8)
         => /\ gwCalls' = 1
            /\ gwReply'.ok =>
                 /\ Askers(conversation_history') =
                        Askers(conversation_history) + 1
                 /\ Len(conversation_history') <= Len(conversation_history) + 2
                 /\ conversation_history'[Len(conversation_history')] =
                        [role |-> "assistant", content |-> gwReply'.text]
                 /\ ret'.kind = "str"
                 /\ ret'.val = gwReply'.text]_vars

C3_Witness ==
    /\ op = "ask_next_question"
    /\ gwCalls = 1
    /\ gwReply.ok
    /\ ret.kind = "str"
    /\ Askers(conversation_history) = 3
    /\ Responders(conversation_history) = 2

\* C4: in every reachable state the turns strictly alternate between asker
\* and responder from the first asker turn on
C4_StrictAlternation ==
    \A i \in 1..(Len(conversation_history) - 1) :
        (\E j \in 1..i : conversation_history[j].role = "assistant")
            => conversation_history[i].role # conversation_history[i + 1].role

\* C5: the transcript before an ask_next_question or extract_requirements
\* call is a prefix of the transcript after it
C5_AppendOnly ==
    [][(op' \in {"ask_next_question", "extract_requirements"})
         => IsPrefix(conversation_history, conversation_history')]_vars

C5_Witness ==
    /\ op \in {"ask_next_question", "extract_requirements"}
    /\ Len(conversation_history) >= 4
    /\ ret.kind # "raise"

\* C6: a transcript with 8 asker turns holds at most 8 responder turns
C6_ResponderBound ==
    Askers(conversation_history) = 8 => Responders(conversation_history) <= 8

CategoryKeys == {<<"functional">>, <<"non_functional">>, <<"constraints">>}

\* C7: the value extract_requirements returns is a mapping that contains the
\* keys functional, non_functional and constraints
C7_AllKeysPresent ==
    (op = "extract_requirements" /\ ret.kind = "json")
        => /\ ret.val.t = "dict"
           /\ \A k \in CategoryKeys : HasKey(ret.val, k)

\* the text json.loads is given for a reply
DecodedText(reply) == RemoveCodeBlock(Strip(reply)).text

\* C8: when the reply does not parse as JSON after the tolerant decode steps,
\* extract_requirements returns the three empty lists and does not raise
C8_FallbackOnDecodeError ==
    (op = "extract_requirements" /\ gwReply.ok
        /\ ~JsonLoads(DecodedText(gwReply.text)).ok)
        => /\ ret.kind = "json"
           /\ ret.val = EmptyRequirements

C8_Witness ==
    /\ op = "extract_requirements"
    /\ gwReply.ok
    /\ gwReply.text = <<"x", " ", "x">>
    /\ ret.kind = "json"
    /\ ret.val = EmptyRequirements

\* C9: no reply text makes extract_requirements or generate_user_stories
\* raise
C9_NoReplyRaises ==
    (op \in {"extract_requirements", "generate_user_stories"} /\ gwReply.ok)
        => ret.kind # "raise"

FenceOpens == {Fence, Fence \o <<"json">>, Fence \o <<"json", "\n">>,
               Fence \o <<"\n">>}
FenceCloses == {Fence, <<"\n">> \o Fence}

ContainsFence(s) == \E i \in 1..Len(s) : StartsWith(SubSeq(s, i, Len(s)), Fence)

\* the reply is the object text b in a closed fence, with or without json tag
FencedForm(reply, b) ==
    \E l \in Leads, o \in FenceOpens, c \in FenceCloses, t \in Trails :
        reply = l \o o \o b \o c \o t

\* C10 as stated: a fenced, optionally json-tagged, JSON object yields the
\* same result as the same object sent without a fence
C10_FencedSameAsBare ==
    (op = "extract_requirements" /\ gwReply.ok)
        => \A b \in ObjectBodies :
               FencedForm(gwReply.text, b) => ret = DecodeRequirements(b)

\* C10 amended: a fenced, optionally json-tagged, JSON object whose text
\* does not contain the fence delimiter yields the same result as the same
\* object sent without a fence
C10_FencedSameAsBareNoInnerFence ==
    (op = "extract_requirements" /\ gwReply.ok)
        => \A b \in ObjectBodies :
               (FencedForm(gwReply.text, b) /\ ~ContainsFence(b))
                   => ret = DecodeRequirements(b)

C10_Witness ==
    /\ op = "extract_requirements"
    /\ gwReply.ok
    /\ gwReply.text = Fence \o <<"json", "\n">> \o FullObject \o <<"\n">> \o Fence
    /\ ret.kind = "json"
    /\ ret.val = JsonLoads(FullObject).val
    /\ \A k \in CategoryKeys : HasKey(ret.val, k)

\* C11: a generate operation called for a project with no requirement
\* records fails with the precondition error (ValueError), makes no Model
\* Gateway call and stores no artifact
C11_NoRequirementsPrecondition ==
    [][(op' \in GenerateMethods /\ requirements = <<>>)
         => /\ ret'.kind = "raise"
            /\ ret'.val = "ValueError"
            /\ gwCalls' = 0
            /\ artifacts' = artifacts]_vars

C11_Witness ==
    /\ op \in DesignMethods
    /\ requirements = <<>>
    /\ ret.kind = "raise"
    /\ ret.val = "ValueError"
    /\ gwCalls = 0
    /\ artifacts = <<>>

\* the user stories reply does not decode
StoriesUndecoded(o, reply) ==
    o = "generate_user_stories" /\ reply.ok
        /\ ~JsonLoads(DecodedText(reply.text)).ok

\* C12: a generate operation on a project with requirements makes exactly
\* one Model Gateway call; when it succeeds exactly one artifact is added to
\* the store, and when the gateway call fails or the user stories reply does
\* not decode none is added
C12_OneCallOneArtifact ==
    [][(op' \in GenerateMethods /\ requirements # <<>>)
         => /\ gwCalls' = 1
            /\ (gwReply'.ok /\ ret'.kind # "raise"
                    /\ ~StoriesUndecoded(op', gwReply'))
                 => /\ Len(artifacts') = Len(artifacts) + 1
                    /\ IsPrefix(artifacts, artifacts')
            /\ (~gwReply'.ok \/ StoriesUndecoded(op', gwReply'))
                 => artifacts' = artifacts]_vars

C12_Witness ==
    /\ op \in DesignMethods
    /\ requirements # <<>>
    /\ gwCalls = 1
    /\ gwReply.ok
    /\ Len(artifacts) = 2
    /\ artifacts[1].artifact_type = "user_stories"
    /\ artifacts[2].artifact_type = ArtifactType(op)

\* C13: generate_user_stories returns a list with one entry per element when
\* the reply decodes to a JSON array, and the empty list when the reply is
\* malformed
C13_OneEntryPerElement ==
    (op = "generate_user_stories" /\ gwReply.ok)
        => LET loaded == JsonLoads(DecodedText(gwReply.text))
           IN  /\ (loaded.ok /\ loaded.val.t = "list")
                    => /\ ret.kind = "json"
                       /\ ret.val.t = "list"
                       /\ Len(ret.val.v) = Len(loaded.val.v)
               /\ ~loaded.ok
                    => /\ ret.kind = "json"
                       /\ ret.val = JList(<<>>)

\* C14: the same generate operation called twice in a row on unchanged
\* requirements, the gateway returning the same text for the same request,
\* sends two identical requests and stores two artifacts of the same type
\* with identical text
C14_RepeatedGenerateIdentical ==
    [][(op' = op /\ op' \in GenerateMethods
          /\ gwReply.ok /\ gwReply'.ok
          /\ Len(artifacts) >= 1 /\ Len(artifacts') = Len(artifacts) + 1)
         => /\ gwRequest' = gwRequest
            /\ artifacts'[Len(artifacts')].artifact_type =
                   artifacts[Len(artifacts)].artifact_type
            /\ artifacts'[Len(artifacts')].content =
                   artifacts[Len(artifacts)].content]_vars

C14_Witness ==
    /\ op = "generate_architecture"
    /\ gwReply.ok
    /\ Len(artifacts) = 2
    /\ artifacts[1].artifact_type = "architecture"
    /\ artifacts[2] = artifacts[1]

SpecTags ==
    {"architecture", "data_model", "api_specification", "technology_stack",
     "implementation_plan", "diagrams", "architecture_recommendations",
     "complete_design", "user_stories"}

\* C15 as stated: every stored artifact carries a type tag from architecture,
\* data_model, api_specification, technology_stack, implementation_plan,
\* diagrams, architecture_recommendations, complete_design, user_stories
C15_TagInSpecSet ==
    \A i \in 1..Len(artifacts) : artifacts[i].artifact_type \in SpecTags

CodeTags ==
    (SpecTags \ {"diagrams", "complete_design"})
        \cup {"mermaid_diagrams", "complete_system_design"}

\* C15 amended: every stored artifact carries a type tag from architecture,
\* data_model, api_specification, technology_stack, implementation_plan,
\* mermaid_diagrams, architecture_recommendations, complete_system_design,
\* user_stories
C15_TagInCodeSet ==
    \A i \in 1..Len(artifacts) : artifacts[i].artifact_type \in CodeTags

C15_Witness ==
    /\ Len(artifacts) = 2
    /\ artifacts[1].artifact_type = "mermaid_diagrams"
    /\ artifacts[2].artifact_type = "complete_system_design"

\* C16: start_session called in any state does not fail and leaves an empty
\* transcript, so the next question is question 1 of 8
C16_StartSessionResets ==
    op = "start_session"
        => /\ conversation_history = <<>>
           /\ ret.kind = "str"
           /\ started
           /\ QuestionNumber(conversation_history) = 1
           /\ ~AllQuestionsAsked(QuestionNumber(conversation_history))

\* a session that had run to its end (8 questions, 8 answers) was reset
C16_Witness ==
    /\ op = "start_session"
    /\ prevLen = 16
    /\ conversation_history = <<>>
    /\ ret.kind = "str"

Instructions ==
    {QuestionPrompt(n) : n \in 1..MaxQuestions} \cup {ExtractionPrompt}

Front(s) == SubSeq(s, 1, Len(s) - 1)

C18_GatewayFailurePropagates ==
    (gwCalls >= 1 /\ ~gwReply.ok)
        => /\ op \in {"ask_next_question", "extract_requirements"}
                     \cup GenerateMethods
           /\ ret.kind = "raise"
           /\ ret.val = "APIError"
           /\ gwCalls = 1

C18_Witness ==
    /\ op = "generate_data_model"
    /\ gwCalls = 1
    /\ ~gwReply.ok
    /\ ret.kind = "raise"
    /\ ret.val = "APIError"
    /\ conversation_history # <<>>

\* C19: when the Model Gateway call fails inside ask_next_question the
\* transcript is as it was before the call
C19_FailedAskKeepsTranscript ==
    (op = "ask_next_question" /\ gwCalls >= 1 /\ ~gwReply.ok)
        => Len(conversation_history) = prevLen

\* C20: extract_requirements in a started session makes exactly one Model
\* Gateway call and leaves the transcript (and so the next question number)
\* unchanged, whether the reply decodes or not
C20_ExtractLeavesTranscript ==
    [][(op' = "extract_requirements" /\ started)
         => /\ gwCalls' = 1
            /\ conversation_history' = conversation_history
            /\ started' = started
            /\ script' = script]_vars

C20_Witness ==
    /\ op = "extract_requirements"
    /\ gwCalls = 1
    /\ gwReply.ok
    /\ ret.kind = "json"
    /\ ret.val = EmptyRequirements
    /\ Len(conversation_history) = 3

SecondBlock == <<"\n">> \o Fence \o AllEmptyObject \o Fence

\* the reply holds two fenced blocks: the text b in a fence, then a fenced
\* all-empty object
MultipleBlocks(reply, b) ==
    \E l \in Leads, o \in FenceOpens, c \in FenceCloses :
        reply = l \o o \o b \o c \o SecondBlock

\* the reply opens a fence around the text b and never closes it
UnclosedFence(reply, b) ==
    \E l \in Leads, o \in FenceOpens, t \in Trails \ {SecondBlock} :
        reply = l \o o \o b \o t

\* C21: a reply with more than one fenced block, or with a malformed
\* (unclosed) fence, makes extract_requirements return the all-empty
\* structure, not the content of one of the blocks
C21_MultipleFencesFail ==
    (op = "extract_requirements" /\ gwReply.ok)
        => \A b \in Bodies \ {FenceInString} :
               (MultipleBlocks(gwReply.text, b) \/ UnclosedFence(gwReply.text, b))
                   => /\ ret.kind = "json"
                      /\ ret.val = EmptyRequirements

\* the methods generate-all sequences, in its order
PerTypeOrder ==
    <<"generate_architecture", "generate_data_model", "generate_api_spec",
      "generate_tech_stack", "generate_implementation_plan",
      "generate_diagrams", "generate_architecture_recommendations",
      "generate_user_stories">>

PerTypeRequests ==
    {GenerateRequest(PerTypeOrder[i], requirements) : i \in 1..Len(PerTypeOrder)}

\* C22 as stated: the complete-design operation and the generate-all
\* orchestration only sequence per-type generate calls: every Model Gateway
\* request they cause is the request of a per-type call
C22_PureCompositions ==
    /\ op = "generate_all"
         => \A i \in 1..Len(runRequests) : runRequests[i] \in PerTypeRequests
    /\ (op = "generate_complete_design" /\ gwCalls >= 1)
         => gwRequest \in PerTypeRequests

\* C22 amended: generate-all only sequences the per-type generate calls, in
\* its fixed order and up to the first that raises, and makes no Model
\* Gateway call of its own; complete-design is a generate operation of its
\* own, with exactly one Model Gateway call whose request is no per-type
\* request
C22_GenerateAllIsComposition ==
    /\ [](op = "generate_all"
            => /\ gwCalls = Len(runRequests)
               /\ Len(runRequests) <= Len(PerTypeOrder)
               /\ \A i \in 1..Len(runRequests) :
                      runRequests[i] = GenerateRequest(PerTypeOrder[i], requirements))
    /\ [][op' = "generate_all"
            => /\ IsPrefix(artifacts, artifacts')
               /\ Len(artifacts') - Len(artifacts) <= gwCalls'
               /\ \A i \in (Len(artifacts) + 1)..Len(artifacts') :
                      \E k \in 1..gwCalls' :
                          artifacts'[i].artifact_type = ArtifactType(PerTypeOrder[k])]_vars
    /\ []((op = "generate_complete_design" /\ gwCalls >= 1)
            => /\ gwCalls = 1
               /\ gwRequest = GenerateRequest("generate_complete_design", requirements)
               /\ gwRequest \notin PerTypeRequests)

C22_Witness ==
    /\ op = "generate_all"
    /\ ret = RetNone
    /\ gwCalls = 8
    /\ Len(runRequests) = 8
    /\ Len(artifacts) = 8
    /\ artifacts[8].artifact_type = "user_stories"

\* C23: the request built for an artifact type does not depend on the
\* artifacts already stored: two generate-all runs in a row on the same
\* requirements send the same request for each type, whatever the first run
\* stored
C23_RequestIndependentOfArtifacts ==
    [][(op = "generate_all" /\ op' = "generate_all"
          /\ requirements' = requirements)
         => \A i \in 1..Len(runRequests') :
                i <= Len(runRequests) => runRequests'[i] = runRequests[i]]_vars

C23_Witness ==
    /\ op = "generate_all"
    /\ Len(runRequests) = 4
    /\ Len(artifacts) = 5
    /\ artifacts[1].artifact_type = "architecture"
    /\ artifacts[3].artifact_type = "architecture"

\* C24: a generate operation never removes or changes a stored artifact, and
\* the artifact count of the project only falls when the project is deleted
C24_ArtifactsOnlyGrow ==
    /\ [][op' \in GenerateMethods => IsPrefix(artifacts, artifacts')]_vars
    /\ [][Len(artifacts') < Len(artifacts)
            => (op' = "delete_project" /\ ~projectExists')]_vars

C24_Witness ==
    /\ op = "generate_data_model"
    /\ projectExists
    /\ Len(artifacts) = 2
    /\ artifacts[1].artifact_type = "data_model"
    /\ artifacts[2].artifact_type = "data_model"

GatherOps ==
    {"gather_requirements", "regather_requirements", "create_new_project"}

Categories == {"functional", "non_functional", "constraint"}

\* the number of entries of the list under key k of an extraction result
ListEntries(result, k) ==
    LET v == DictGet(result, <<k>>, JList(<<>>))
    IN  IF v.t = "list" THEN Len(v.v) ELSE 0

\* the entries of the three lists of the extraction result decoded from reply
TotalEntries(reply) ==
    LET decoded == DecodeRequirements(reply.text)
    IN  IF reply.ok /\ decoded.kind = "json" /\ decoded.val.t = "dict"
        THEN ListEntries(decoded.val, "functional")
                + ListEntries(decoded.val, "non_functional")
                + ListEntries(decoded.val, "constraints")
        ELSE 0

\* C25: after gather_requirements extracted a result, every requirement
\* record stored has category functional, non_functional or constraint, and
\* the number of records stored equals the number of entries in the three
\* lists of the extraction result
C25_StoredMatchesExtraction ==
    (op \in GatherOps /\ gwReply.ok /\ gwCalls = GatherCalls)
        => /\ \A i \in 1..Len(requirements) :
                  requirements[i].category \in Categories
           /\ Len(requirements) = TotalEntries(gwReply)

\* C27: a confirmed re-gathering leaves none of the records stored before
\* it, whether the new session succeeds, fails or extracts nothing (only
\* records of the new extraction are stored); a declined one leaves the
\* stored records unchanged
C27_RegatherReplaces ==
    [][op' = "regather_requirements"
         => IF ret' = RetStr("declined")
            THEN requirements' = requirements
            ELSE /\ Len(requirements') <= TotalEntries(gwReply')
                 /\ \A i \in 1..Len(requirements') :
                        requirements'[i].description # "old"]_vars

\* a re-gathering whose session failed at the third gateway call
C27_Witness ==
    /\ op = "regather_requirements"
    /\ ret = Reported("APIError")
    /\ gwCalls = 3
    /\ requirements = <<>>

\* C29: without the Model Gateway credential the program stops at startup:
\* it never reaches the menu and attempts no Model Gateway call
C29_MissingCredentialFatal ==
    ~credential => (pc # "menu" /\ gwCalls = 0)

\* C26: ask_next_question appends a responder turn if and only if the answer
\* supplied is a non-empty string, and the turn holds the answer as given (no
\* placeholder is substituted); a call with the empty string leaves the
\* transcript and returns what a call with no answer does
C26_ResponderTurnIffNonEmpty ==
    [][\A user_response \in UserResponses, gwOk \in BOOLEAN :
         AskNextQuestion(user_response, gwOk)
           => /\ Responders(conversation_history')
                   = Responders(conversation_history)
                       + (IF user_response \notin {None, ""} THEN 1 ELSE 0)
              /\ \A i \in (Len(conversation_history) + 1)..Len(conversation_history') :
                     conversation_history'[i].role = "user"
                         => conversation_history'[i].content = user_response
              /\ (user_response = "" /\ started)
                     => \E r \in {AskResult(conversation_history, None, gwOk)} :
                            /\ conversation_history' = r.h
                            /\ ret' = r.ret]_vars

\* a call in mid-session that appended a question and no responder turn
C26_Witness ==
    /\ op = "ask_next_question"
    /\ ret.kind = "str"
    /\ Len(conversation_history) = prevLen + 1
    /\ prevLen >= 1
    /\ conversation_history[prevLen].role = "assistant"
    /\ conversation_history[Len(conversation_history)].role = "assistant"

\* every turn of h rendered: an asker turn as its numbered question, a
\* responder turn as an answer
EveryTurnRendered(h) ==
    [i \in 1..Len(h) |->
        IF h[i].role = "assistant"
        THEN "Q" \o ToString(Askers(SubSeq(h, 1, i))) \o ": " \o h[i].content
        ELSE "A: " \o h[i].content \o "\n"]

\* C28: get_conversation_summary renders every turn of the transcript in
\* transcript order, each asker turn as a question numbered by its position
\* among the asker turns and each responder turn as an answer; no responder
\* turn is left out
C28_SummaryRendersEveryTurn ==
    op = "get_conversation_summary"
        => ret = RetStr(JoinWith("\n", EveryTurnRendered(conversation_history)))

OwnOps == {"start_session", "ask_next_question", "extract_requirements"}

PeerOps ==
    {"peer.start_session", "peer.ask_next_question", "peer.extract_requirements"}

\* C30: with the operations of two RequirementsGatherer instances
\* interleaved in any order, start_session, ask_next_question or
\* extract_requirements on one instance never changes the transcript (hence
\* the question count) of the other
C30_SessionsShareNothing ==
    [][/\ op' \in OwnOps
            => /\ peer'.conversation_history = peer.conversation_history
               /\ Askers(peer'.conversation_history)
                      = Askers(peer.conversation_history)
       /\ op' \in PeerOps
            => /\ conversation_history' = conversation_history
               /\ Askers(conversation_history')
                      = Askers(conversation_history)]_vars

\* the second session is asked a question while the first holds another
\* transcript
C30_Witness ==
    /\ op = "peer.ask_next_question"
    /\ ret.kind = "str"
    /\ Len(peer.conversation_history) = 3
    /\ Len(conversation_history) = 1

====
